---- MODULE Spec2Model ----
(***************************************************************************)
(* Offline-first synchronisation engine of the shopping list app.         *)
(*                                                                         *)
(* Client: src/src/components/ShoppingList.tsx (React component: local     *)
(* item cache, pending CDC queue, debounce / poll scheduler).              *)
(* Server: the worker in src/src/contexts/AuthContext.tsx (getChanges,     *)
(* insertChanges) over the table shopping_items_cdc of                     *)
(* src/sql/migration.sql.                                                  *)
(*                                                                         *)
(* One browser client is modelled in full, with the closures its timers    *)
(* and handlers capture at render time.  Every other client of the shared  *)
(* log is the action OtherAppend, which posts a batch to the gateway.      *)
(* Timers carry no clock: an armed timer may fire at any later step, and   *)
(* a request stays in flight for any number of steps.                      *)
(***************************************************************************)
EXTENDS Integers, Sequences, FiniteSets, TLC

\* ------------------------------------------------------------------ bounds

\* ids the client may mint with uuidv7 (1..MaxIds, in minting order)
MaxIds == 1
\* rows the log may hold (guards of the inserts)
MaxLog == 2
\* round trips (polls and pushes) the client may start in one run
MaxRounds == 3
\* local mutations in one run
MaxEdits == 2
\* visibilitychange events in one run
MaxFlips == 2
\* page loads after the first in one run
MaxReloads == 1
\* POST requests of other clients the worker handles at once
MaxPosts == 2
\* rows in the log while the worker handles them
MaxAppendLog == 3
MaxVerifies == 2
MaxStaged == 3
MaxFailed == 6
MaxTicks == 1

\* ------------------------------------------------------------------ values

\* JavaScript null (deleted_at of a live item, an empty ref, no response)
NULL == "null"
\* undefined
UNDEFINED == "undefined"
\* the value of new Date().toISOString() in removeItem
DelStamp == "t"
\* names the user types
Names == {"Milk", "Eggs"}
\* the id of an item minted by another client (it sorts after the client's)
OtherId == MaxIds + 1
\* the empty string as a record id
EmptyId == 0

\* truthiness of a completed value: booleans on the client, 1/0 from SQL
Truthy(v) == v \in {"true", "1"}

\* !v
JsNot(v) == IF Truthy(v) THEN "false" ELSE "true"

\* completed ? 1 : 0
SqlBool(v) == IF Truthy(v) THEN "1" ELSE "0"

\* ------------------------------------------------------------------ sequences

Range(s) == {s[i] : i \in DOMAIN s}

RECURSIVE FoldLeft(_, _, _)
FoldLeft(Op(_, _), acc, s) ==
  IF s = <<>> THEN acc ELSE FoldLeft(Op, Op(acc, Head(s)), Tail(s))

Filter(s, P(_)) == SelectSeq(s, P)

\* ------------------------------------------------------------------ queue

\* a.id.localeCompare(b.id): ids are compared as the numbers that stand for them
LocaleCompare(a, b) == IF a < b THEN -1 ELSE IF a > b THEN 1 ELSE 0

\* (mutant) an update sorts before the create of its id
MutCdcCompare(a, b) ==
  IF a.id # b.id THEN LocaleCompare(a.id, b.id)
  ELSE IF a.change = "update" THEN -1
  ELSE IF b.change = "update" THEN 1
  ELSE 0

\* the comparator of sortCdcChanges
CdcCompare(a, b) ==
  IF a.id # b.id THEN LocaleCompare(a.id, b.id)
  ELSE IF a.change = "create" THEN -1
  ELSE IF b.change = "create" THEN 1
  ELSE 0

\* Array.prototype.sort is stable: insert x after the last element that does
\* not compare greater than x
RECURSIVE InsertSorted(_, _)
InsertSorted(s, x) ==
  IF s = <<>> THEN <<x>>
  ELSE IF CdcCompare(s[Len(s)], x) <= 0 THEN Append(s, x)
  ELSE Append(InsertSorted(SubSeq(s, 1, Len(s) - 1), x), s[Len(s)])

\* (mutant) the queue is not sorted again
MutSortCdcChanges(changes) == changes

sortCdcChanges(changes) == FoldLeft(InsertSorted, <<>>, changes)

SameKey(a, b) == a.id = b.id /\ a.change = b.change

\* (mutant) the change is appended without looking for its (id, change)
MutAddCdcChange(changes, newChange) == sortCdcChanges(Append(changes, newChange))

\* (mutant) a change whose (id, change) is in the queue is dropped
MutKeepCdcChange(changes, newChange) ==
  IF \E i \in DOMAIN changes : SameKey(changes[i], newChange)
  THEN sortCdcChanges(changes)
  ELSE sortCdcChanges(Append(changes, newChange))

addCdcChange(changes, newChange) ==
  IF \E i \in DOMAIN changes : SameKey(changes[i], newChange)
  THEN sortCdcChanges([i \in DOMAIN changes |->
         IF SameKey(changes[i], newChange) THEN newChange ELSE changes[i]])
  ELSE sortCdcChanges(Append(changes, newChange))

\* ------------------------------------------------------------------ cache

ItemIdsOf(list) == {list[i].id : i \in DOMAIN list}

HasId(items, id) == \E i \in DOMAIN items : items[i].id = id

\* change.name, change.completed, change.deleted_at: undefined when the
\* record has no such property
Field(change, f) == IF f \in DOMAIN change THEN change[f] ELSE UNDEFINED

\* !v for a deleted_at
Falsy(v) == v \in {NULL, UNDEFINED, ""}

ItemOf(change) ==
  [id |-> change.id, name |-> Field(change, "name"),
   completed |-> Field(change, "completed"),
   deleted_at |-> Field(change, "deleted_at")]

\* (mutant) { ...item, ...change }: an existing item keeps the fields the
\* record does not carry
MutApplyChangeMerge(updatedItems, change) ==
  IF ~HasId(updatedItems, change.id)
  THEN IF change.change = "create" /\ Falsy(Field(change, "deleted_at"))
       THEN Append(updatedItems, ItemOf(change))
       ELSE updatedItems
  ELSE [i \in DOMAIN updatedItems |->
         IF updatedItems[i].id = change.id
         THEN [f \in {"id", "name", "completed", "deleted_at"} |->
                 IF f \in DOMAIN change THEN change[f] ELSE updatedItems[i][f]]
         ELSE updatedItems[i]]

\* (mutant) a record for an unknown id makes an item, whatever its kind
MutApplyChangeUpsert(updatedItems, change) ==
  IF ~HasId(updatedItems, change.id)
  THEN IF Falsy(Field(change, "deleted_at"))
       THEN Append(updatedItems, ItemOf(change))
       ELSE updatedItems
  ELSE [i \in DOMAIN updatedItems |->
         IF updatedItems[i].id = change.id
         THEN [updatedItems[i] EXCEPT !.name = Field(change, "name"),
                                      !.completed = Field(change, "completed"),
                                      !.deleted_at = Field(change, "deleted_at")]
         ELSE updatedItems[i]]

\* (mutant) a create record leaves an item the cache holds as it is
MutApplyChangeIgnoreCreate(updatedItems, change) ==
  IF ~HasId(updatedItems, change.id)
  THEN IF change.change = "create" /\ Falsy(Field(change, "deleted_at"))
       THEN Append(updatedItems, ItemOf(change))
       ELSE updatedItems
  ELSE [i \in DOMAIN updatedItems |->
         IF updatedItems[i].id = change.id /\ change.change = "update"
         THEN [updatedItems[i] EXCEPT !.name = Field(change, "name"),
                                      !.completed = Field(change, "completed"),
                                      !.deleted_at = Field(change, "deleted_at")]
         ELSE updatedItems[i]]

\* one step of the reduce in applyBackendChanges
ApplyChange(updatedItems, change) ==
  IF ~HasId(updatedItems, change.id)
  THEN IF change.change = "create" /\ Falsy(Field(change, "deleted_at"))
       THEN Append(updatedItems, ItemOf(change))
       ELSE updatedItems
  ELSE [i \in DOMAIN updatedItems |->
         IF updatedItems[i].id = change.id
         THEN [updatedItems[i] EXCEPT !.name = Field(change, "name"),
                                      !.completed = Field(change, "completed"),
                                      !.deleted_at = Field(change, "deleted_at")]
         ELSE updatedItems[i]]

applyBackendChanges(items, backendChanges) ==
  FoldLeft(ApplyChange, items, backendChanges)

NotDeleted(item) == Falsy(item.deleted_at)

\* the filter of clearDeletedItems
clearDeletedItems(items) == Filter(items, NotDeleted)

\* ------------------------------------------------------------------ server

\* (mutant) the INSERT also binds the sequence_number the change carries
MutInsertRow(change, seq) ==
  [sequence_number |-> IF "sequence_number" \in DOMAIN change
                       THEN change.sequence_number ELSE seq,
   id |-> change.id, change |-> change.change,
   name |-> change.name, completed |-> SqlBool(change.completed),
   deleted_at |-> change.deleted_at]

\* the row one INSERT adds: sequence_number is AUTOINCREMENT, the five bound
\* columns come from the change, whatever else the change carries
InsertRow(change, seq) ==
  [sequence_number |-> seq, id |-> change.id, change |-> change.change,
   name |-> change.name, completed |-> SqlBool(change.completed),
   deleted_at |-> change.deleted_at]

\* AUTOINCREMENT: one more than the largest sequence_number ever stored
MaxSeq(table) == IF table = <<>> THEN 0 ELSE table[Len(table)].sequence_number

\* (mutant) INSERT OR REPLACE keyed by the item id: a change replaces the row
\* of its item
MutBatchInsert(table, changes) ==
  [i \in DOMAIN table |->
     IF \E j \in DOMAIN changes : changes[j].id = table[i].id
     THEN LET j == CHOOSE k \in DOMAIN changes : changes[k].id = table[i].id
          IN InsertRow(changes[j], table[i].sequence_number)
     ELSE table[i]]
  \o [i \in DOMAIN changes |-> InsertRow(changes[i], MaxSeq(table) + i)]

\* (mutant) the statements of a batch run last to first
MutBatchOrder(table, changes) ==
  table \o [i \in DOMAIN changes |->
             InsertRow(changes[Len(changes) + 1 - i], MaxSeq(table) + i)]

\* env.DB.batch(batch): the rows of one batch, added in order
BatchInsert(table, changes) ==
  table \o [i \in DOMAIN changes |-> InsertRow(changes[i], MaxSeq(table) + i)]

\* the validation of insertChanges: some change is refused
Malformed(change) ==
  change.id = EmptyId \/ change.change = "" \/ change.name = NULL

\* the CHECK constraint of shopping_items_cdc
CheckChange(change) == change.change \in {"create", "update"}

\* (mutant) WHERE sequence_number >= ?
MutGetChanges(table, afterSequence) ==
  LET results == SelectSeq(table, LAMBDA r : r.sequence_number >= afterSequence)
  IN [changes |-> results,
      max_sequence |-> IF Len(results) > 0
                       THEN results[Len(results)].sequence_number
                       ELSE afterSequence]

\* getChanges: rows after afterSequence in ascending order, and max_sequence
getChanges(table, afterSequence) ==
  LET results == SelectSeq(table, LAMBDA r : r.sequence_number > afterSequence)
  IN [changes |-> results,
      max_sequence |-> IF Len(results) > 0
                       THEN results[Len(results)].sequence_number
                       ELSE afterSequence]

\* the digits of a query string, as parseInt reads them
Digits == {"0", "1", "2", "3", "4", "5", "6", "7", "8", "9"}

DigitValue(c) ==
  CASE c = "0" -> 0 [] c = "1" -> 1 [] c = "2" -> 2 [] c = "3" -> 3 [] c = "4" -> 4
    [] c = "5" -> 5 [] c = "6" -> 6 [] c = "7" -> 7 [] c = "8" -> 8 [] c = "9" -> 9

\* Number.NaN, where a number is <<n>>
NaN == <<>>

\* the longest prefix of s made of digits
RECURSIVE DigitPrefix(_)
DigitPrefix(s) ==
  IF s = <<>> \/ Head(s) \notin Digits THEN <<>>
  ELSE <<Head(s)>> \o DigitPrefix(Tail(s))

RECURSIVE DecimalValue(_)
DecimalValue(ds) ==
  IF ds = <<>> THEN 0
  ELSE 10 * DecimalValue(SubSeq(ds, 1, Len(ds) - 1)) + DigitValue(ds[Len(ds)])

\* parseInt(s, 10) on a string of digits and letters: the number its leading
\* digits spell, NaN when it has none
parseInt(s) ==
  IF DigitPrefix(s) = <<>> THEN NaN ELSE <<DecimalValue(DigitPrefix(s))>>

\* what url.searchParams.get('after_sequence') gives: null when the parameter
\* is not given, else its text, a sequence of characters
SearchParam(given, text) == [given |-> given, text |-> text]

\* seqNumStr ? parseInt(seqNumStr, 10) : 0
AfterSequence(seqNumStr) ==
  IF ~seqNumStr.given \/ seqNumStr.text = <<>> THEN <<0>> ELSE parseInt(seqNumStr.text)

\* the after_sequence values other clients send: omitted, empty, integers,
\* and strings that are not integers
QueryStrings ==
  {SearchParam(FALSE, <<>>)} \cup
  {SearchParam(TRUE, text) :
     text \in {<<>>, <<"a">>, <<"1", "a">>} \cup
              {<<c>> : c \in {d \in Digits : DigitValue(d) <= MaxLog}}}

\* ------------------------------------------------------------------ rate limit

MAX_ATTEMPTS == 5

\* LOCKOUT_DURATION = 1 * 60, in seconds
LOCKOUT_DURATION == 1 * 60

\* '+1 hour' of the DELETE in checkRateLimit, in seconds
Hour == 60 * 60

\* getClientIp: the CF-Connecting-IP of the requests
Ips == {"203.0.113.7"}

\* the rows of the table passwords
StoredPasswords == {"secret"}

\* payload.password: the password, a wrong one, none
SentPasswords == {"secret", "wrong", ""}

\* the Origin header the browser sends for the app
AppOrigin == <<"https://list.example">>

\* the Origin header of a request: absent or the origin of the app
Origins == {<<>>, AppOrigin}

\* ... FROM login_attempts WHERE ip_address = ? ; a row is its ip_address,
\* attempt_count, last_attempt_time and locked_until (first_attempt_time is
\* written once and never used)
AttemptsOf(table, ip) == {r \in table : r.ip_address = ip}

\* DELETE FROM login_attempts WHERE datetime(last_attempt_time, '+1 hour') <
\* datetime('now') AND locked_until IS NULL
CleanUp(table, t) ==
  {r \in table : ~(r.last_attempt_time + Hour < t /\ r.locked_until = <<>>)}

\* Math.max(0, MAX_ATTEMPTS - attempt_count)
AttemptsLeft(count) == IF MAX_ATTEMPTS - count > 0 THEN MAX_ATTEMPTS - count ELSE 0

\* checkRateLimit at time t: the table after its DELETEs and what it returns
checkRateLimit(table, ip, t) ==
  LET cleaned == CleanUp(table, t)
      rows == AttemptsOf(cleaned, ip)
  IN IF rows = {}
     THEN [table |-> cleaned, limited |-> FALSE, attemptsLeft |-> MAX_ATTEMPTS,
           resetTime |-> <<>>]
     ELSE LET ipCheck == CHOOSE r \in rows : TRUE
          IN IF ipCheck.locked_until # <<>>
             THEN IF t < ipCheck.locked_until[1]
                  THEN [table |-> cleaned, limited |-> TRUE, attemptsLeft |-> 0,
                        resetTime |-> ipCheck.locked_until]
                  ELSE [table |-> cleaned \ rows, limited |-> FALSE,
                        attemptsLeft |-> MAX_ATTEMPTS, resetTime |-> <<>>]
             ELSE [table |-> cleaned,
                   limited |-> AttemptsLeft(ipCheck.attempt_count) <= 0,
                   attemptsLeft |-> AttemptsLeft(ipCheck.attempt_count),
                   resetTime |-> <<>>]

\* recordFailedAttempt, its SELECT: <<>> or <<attempt_count>>
SelectAttemptCount(table, ip) ==
  IF AttemptsOf(table, ip) = {} THEN <<>>
  ELSE <<(CHOOSE r \in AttemptsOf(table, ip) : TRUE).attempt_count>>

\* UPDATE login_attempts SET attempt_count = ?, last_attempt_time =
\* datetime('now') [, locked_until = ?] WHERE ip_address = ?
UpdateAttempts(table, ip, t, newCount, locked) ==
  {IF r.ip_address = ip
   THEN [r EXCEPT !.attempt_count = newCount, !.last_attempt_time = t,
                  !.locked_until = IF locked = <<>> THEN @ ELSE locked]
   ELSE r : r \in table}

\* recordFailedAttempt after its SELECT gave existingRecord: the UPDATE or the
\* INSERT, and the lockUntil it returns. An INSERT of an ip that has a row by
\* now breaks the primary key: the catch returns null
recordFailedAttempt(table, ip, t, existingRecord) ==
  IF existingRecord # <<>>
  THEN LET newCount == existingRecord[1] + 1
       IN IF newCount >= MAX_ATTEMPTS
          THEN [table |-> UpdateAttempts(table, ip, t, newCount, <<t + LOCKOUT_DURATION>>),
                lockUntil |-> <<t + LOCKOUT_DURATION>>]
          ELSE [table |-> UpdateAttempts(table, ip, t, newCount, <<>>),
                lockUntil |-> <<>>]
  ELSE IF AttemptsOf(table, ip) # {}
  THEN [table |-> table, lockUntil |-> <<>>]
  ELSE [table |-> table \cup {[ip_address |-> ip, attempt_count |-> 1,
                               last_attempt_time |-> t, locked_until |-> <<>>]},
        lockUntil |-> <<>>]

\* resetFailedAttempts: DELETE FROM login_attempts WHERE ip_address = ?
resetFailedAttempts(table, ip) == table \ AttemptsOf(table, ip)

\* ------------------------------------------------------------------ CORS

\* request?.headers.get('Origin') || '*' ; request is <<>> when the caller
\* passed none
OriginOf(request) ==
  IF request = <<>> THEN "*"
  ELSE IF request[1].origin = <<>> THEN "*"
  ELSE request[1].origin[1]

\* the headers of corsResponse(body, status, request)
corsResponse(status, request) ==
  [status |-> status, allowOrigin |-> <<OriginOf(request)>>,
   allowCredentials |-> "true"]

\* the preflight answer
handleCORS(request) ==
  [status |-> 200, allowOrigin |-> <<OriginOf(request)>>, allowCredentials |-> "true"]

\* new Response('Not Found', { status: 404 }): no CORS header
NotFoundResponse == [status |-> 404, allowOrigin |-> <<>>, allowCredentials |-> NULL]

\* ------------------------------------------------------------------ state

VARIABLES
  items,               \* useState: the Local Item Cache
  cdcChanges,          \* useState: the PendingQueue
  syncStatus,          \* useState: idle | pending | syncing
  isPageVisible,       \* useState, equal to document.visibilityState after each handler
  lastSequenceNumber,  \* useState: the cursor as the renders see it
  syncTimerRef,        \* "null", "armed", or "stale" (a handle that fired or was cleared)
  timerClosure,        \* what the armed debounce callback captured: <<[changes, env]>>
  pollingIntervalRef,  \* <<>> or <<env>>: the armed interval and its pollForChanges
  isPollingRef,
  syncStatusOwnerRef,  \* "polling" | "manual" | "timer" | NULL
  handler,             \* the registered handleVisibilityChange: [cdcLength, env]
  storedItems,         \* localStorage shopping-list-items
  storedCdc,           \* localStorage shopping-list-items-cdc
  storedSeq,           \* localStorage last sequence number: <<>> or <<n>>
  pushes,              \* the sendChangesToBackend calls in flight
  poll,                \* <<>> or the pollForChanges call in flight
  log,                 \* the table shopping_items_cdc
  otherAnswer,         \* the last request of another client and the gateway's answer
  posts,               \* POST /changes of other clients the worker is handling
  loginAttempts,       \* the table login_attempts
  now,                 \* the clock: seconds
  verifies,            \* POST /auth/verify requests the worker is handling
  authAnswer,          \* <<>> or the last answer of verifyPassword
  failedHist,          \* history: failed verifications since the last success
  ticks,               \* history: advances of the clock
  nextId,              \* the next uuidv7
  lastPullLen,         \* history: rows in the log when the last completed pull was served
  edits,               \* history: local mutations so far
  flips,               \* history: visibilitychange events so far
  reloads,             \* history: page loads after the first
  rounds               \* history: round trips the client started

reactVars == <<items, cdcChanges, syncStatus, isPageVisible, lastSequenceNumber>>
refVars == <<syncTimerRef, timerClosure, pollingIntervalRef, isPollingRef,
             syncStatusOwnerRef, handler>>
storageVars == <<storedItems, storedCdc, storedSeq>>
clientVars == <<reactVars, refVars, storageVars, pushes, poll, nextId, lastPullLen,
                edits, flips, reloads, rounds>>
authVars == <<loginAttempts, now, verifies, authAnswer, failedHist, ticks>>
vars == <<clientVars, log, otherAnswer, posts, authVars>>

\* the tables of the migration, empty, and no request yet
AuthInit ==
  /\ loginAttempts = {}
  /\ now = 0
  /\ verifies = <<>>
  /\ authAnswer = <<>>
  /\ failedHist = [count |-> 0, since |-> 0, lockUntil |-> <<>>]
  /\ ticks = 0

\* what a function created in a render closes over
Env(status, visible, lastSeq) ==
  [syncStatus |-> status, isPageVisible |-> visible, lastSequenceNumber |-> lastSeq]

getLastSequenceNumber(stored) == IF stored = <<>> THEN 0 ELSE stored[1]

saveLastSequenceNumber(sequenceNumber) == <<sequenceNumber>>

\* The refs, the pending syncStatus and the poll slot, threaded through the
\* calls one handler makes before React renders again.
Refs ==
  [timer |-> syncTimerRef, closure |-> timerClosure, interval |-> pollingIntervalRef,
   isPolling |-> isPollingRef, owner |-> syncStatusOwnerRef, status |-> syncStatus,
   handler |-> handler, poll |-> poll]

startPolling(R, env) ==
  IF ~env.isPageVisible THEN R ELSE [R EXCEPT !.interval = <<env>>]

stopPolling(R) == [R EXCEPT !.interval = <<>>]

\* clearTimeout(syncTimerRef.current), the ref itself left as it is
clearSyncTimer(R) ==
  IF R.timer = "armed" THEN [R EXCEPT !.timer = "stale", !.closure = <<>>] ELSE R

\* (mutant) pollForChanges does not look at isPollingRef
MutPollGuard(R, env) == ~env.isPageVisible

\* the first line of pollForChanges
PollGuard(R, env) == R.isPolling \/ ~env.isPageVisible

\* pollForChanges up to its await: cursor is localStorage's value when fetch is
\* called, cont the startPolling that awaits this poll (<<>> or <<env>>)
pollForChanges(R, env, cursor, cont) ==
  IF PollGuard(R, env) THEN R
  ELSE [R EXCEPT
         !.isPolling = TRUE,
         !.owner = IF env.syncStatus = "idle" THEN "polling" ELSE @,
         !.status = IF env.syncStatus = "idle" THEN "syncing" ELSE @,
         !.poll = <<[stage |-> "sent", after |-> cursor, response |-> <<>>,
                     servedAt |-> 0,
                     lastSequenceNumber |-> env.lastSequenceNumber, cont |-> cont]>>]

\* await pollForChanges(); startPolling(): when the poll returns at its guard the
\* startPolling runs at once, otherwise it waits for the poll to end
pollThenStartPolling(R, env, cursor) ==
  IF PollGuard(R, env) THEN startPolling(R, env)
  ELSE pollForChanges(R, env, cursor, <<env>>)

\* (mutant) hiding the page cancels the sync timer whatever the queue holds
MutHandleVisibilityChange(R, isVisible, cursor) ==
  IF isVisible
  THEN IF R.handler.cdcLength = 0
       THEN pollForChanges(startPolling(R, R.handler.env), R.handler.env, cursor, <<>>)
       ELSE R
  ELSE LET S == stopPolling(R)
       IN IF S.timer # "null"
          THEN [S EXCEPT !.timer = "null", !.closure = <<>>]
          ELSE S

handleVisibilityChange(R, isVisible, cursor) ==
  IF isVisible
  THEN IF R.handler.cdcLength = 0
       THEN pollForChanges(startPolling(R, R.handler.env), R.handler.env, cursor, <<>>)
       ELSE R
  ELSE LET S == stopPolling(R)
       IN IF R.handler.cdcLength = 0 /\ S.timer # "null"
          THEN [S EXCEPT !.timer = "null", !.closure = <<>>]
          ELSE S

\* (mutant) the queue effect leaves an armed debounce timer running with the
\* queue it captured
MutCdcEffects(R, prevCdc, newCdc, env, isVisible, cursor) ==
  LET R1 == IF prevCdc # <<>> THEN stopPolling(R) ELSE R
      R2 == IF Len(prevCdc) # Len(newCdc)
            THEN handleVisibilityChange(
                   [R1 EXCEPT !.handler = [cdcLength |-> Len(newCdc), env |-> env]],
                   isVisible, cursor)
            ELSE R1
  IN IF newCdc = <<>>
     THEN startPolling([R2 EXCEPT !.status = "idle"], env)
     ELSE [stopPolling(R2) EXCEPT
             !.status = "pending", !.timer = "armed",
             !.closure = IF R2.timer = "armed" THEN @
                         ELSE <<[changes |-> newCdc, env |-> env]>>]

\* The effects of the render that follows a setCdcChanges: cleanups of the
\* previous run first, then the visibility effect (when the length changed) and
\* the queue effect, each with the functions of this render (env).
cdcEffects(R, prevCdc, newCdc, env, isVisible, cursor) ==
  LET R1 == IF prevCdc # <<>> THEN stopPolling(clearSyncTimer(R)) ELSE R
      R2 == IF Len(prevCdc) # Len(newCdc)
            THEN handleVisibilityChange(
                   [R1 EXCEPT !.handler = [cdcLength |-> Len(newCdc), env |-> env]],
                   isVisible, cursor)
            ELSE R1
  IN IF newCdc = <<>>
     THEN startPolling([R2 EXCEPT !.status = "idle"], env)
     ELSE [stopPolling(R2) EXCEPT
             !.status = "pending", !.timer = "armed",
             !.closure = <<[changes |-> newCdc, env |-> env]>>]

\* a handler that leaves the refs R has started a poll
PollStarted(R) == R.poll # <<>> /\ R.poll # poll

\* the refs and the status a handler leaves behind; started counts the pushes
\* it sent
SetRefs(R, started) ==
  /\ rounds + started + (IF PollStarted(R) THEN 1 ELSE 0) <= MaxRounds
  /\ rounds' = rounds + started + (IF PollStarted(R) THEN 1 ELSE 0)
  /\ syncTimerRef' = R.timer
  /\ timerClosure' = R.closure
  /\ pollingIntervalRef' = R.interval
  /\ isPollingRef' = R.isPolling
  /\ syncStatusOwnerRef' = R.owner
  /\ syncStatus' = R.status
  /\ handler' = R.handler
  /\ poll' = R.poll

\* ------------------------------------------------------------------ mount

\* The first render (empty lists, isPageVisible true, the stored cursor) with
\* its effects, then the render of the loaded lists with its effects.
MountRefs(queue, cursor, isVisible) ==
  LET env0 == Env("idle", TRUE, cursor)
      R0 == [timer |-> "null", closure |-> <<>>, interval |-> <<>>,
             isPolling |-> FALSE, owner |-> NULL, status |-> "idle",
             handler |-> [cdcLength |-> 0, env |-> env0], poll |-> <<>>]
      Ra == pollForChanges(R0, env0, cursor, <<>>)
      Rb == IF queue = <<>> THEN startPolling(Ra, env0) ELSE Ra
      Rc == handleVisibilityChange(Rb, isVisible, cursor)
      Rd == startPolling([Rc EXCEPT !.status = "idle"], env0)
  IN cdcEffects(Rd, <<>>, queue, Env(Rd.status, isVisible, cursor), isVisible, cursor)

\* (mutant) the catch branch: the stored queue is not read
MutLoadCdcFromLocalStorage(stored) == <<>>

loadCdcFromLocalStorage(stored) == sortCdcChanges(stored)

Init ==
  LET R == MountRefs(<<>>, 0, TRUE)
  IN /\ items = <<>>
     /\ cdcChanges = <<>>
     /\ syncStatus = R.status
     /\ isPageVisible = TRUE
     /\ lastSequenceNumber = 0
     /\ syncTimerRef = R.timer
     /\ timerClosure = R.closure
     /\ pollingIntervalRef = R.interval
     /\ isPollingRef = R.isPolling
     /\ syncStatusOwnerRef = R.owner
     /\ handler = R.handler
     /\ storedItems = <<>>
     /\ storedCdc = <<>>
     /\ storedSeq = <<>>
     /\ pushes = <<>>
     /\ poll = R.poll
     /\ log = <<>>
     /\ otherAnswer = <<>>
     /\ posts = <<>>
     /\ AuthInit
     /\ nextId = 1
     /\ lastPullLen = 0
     /\ edits = 0
     /\ flips = 0
     /\ reloads = 0
     /\ rounds = 1

\* the page is loaded again: the component mounts on what localStorage holds,
\* and the requests in flight are dropped with the old page
Reload ==
  LET queue == loadCdcFromLocalStorage(storedCdc)
      cursor == getLastSequenceNumber(storedSeq)
  IN /\ reloads < MaxReloads
     /\ reloads' = reloads + 1
     /\ rounds < MaxRounds
     /\ rounds' = rounds + 1
     /\ LET R == MountRefs(queue, cursor, isPageVisible)
        IN /\ syncTimerRef' = R.timer
           /\ timerClosure' = R.closure
           /\ pollingIntervalRef' = R.interval
           /\ isPollingRef' = R.isPolling
           /\ syncStatusOwnerRef' = R.owner
           /\ syncStatus' = R.status
           /\ handler' = R.handler
           /\ poll' = R.poll
     /\ items' = storedItems
     /\ cdcChanges' = queue
     /\ storedCdc' = queue
     /\ lastSequenceNumber' = cursor
     /\ pushes' = <<>>
     /\ UNCHANGED <<isPageVisible, storedItems, storedSeq, nextId, lastPullLen,
                    edits, flips, log, otherAnswer, posts, authVars>>

\* ------------------------------------------------------------------ local mutations

Cursor == getLastSequenceNumber(storedSeq)

CurrentEnv == Env(syncStatus, isPageVisible, lastSequenceNumber)

CdcOf(change, item) ==
  [id |-> item.id, change |-> change, name |-> item.name,
   completed |-> item.completed, deleted_at |-> item.deleted_at]

\* setItems(newItems); setCdcChanges(prev => addCdcChange(prev, change)), the
\* render and the effects that follow
Mutate(newItems, change) ==
  LET newCdc == addCdcChange(cdcChanges, change)
  IN /\ edits < MaxEdits
     /\ edits' = edits + 1
     /\ SetRefs(cdcEffects(Refs, cdcChanges, newCdc, CurrentEnv, isPageVisible, Cursor), 0)
     /\ items' = newItems
     /\ cdcChanges' = newCdc
     /\ storedItems' = newItems
     /\ storedCdc' = newCdc
     /\ UNCHANGED <<isPageVisible, lastSequenceNumber, storedSeq, pushes,
                    lastPullLen, flips, reloads, log, otherAnswer, posts, authVars>>

\* the rows of the table: only items without deleted_at can be clicked
Visible(i) == i \in DOMAIN items /\ NotDeleted(items[i])

addItem(name) ==
  /\ nextId <= MaxIds
  /\ LET newItemObj == [id |-> nextId, name |-> name, completed |-> "false",
                        deleted_at |-> NULL]
     IN Mutate(Append(items, newItemObj), CdcOf("create", newItemObj))
  /\ nextId' = nextId + 1

toggleItem(i) ==
  /\ Visible(i)
  /\ LET updatedItem == [items[i] EXCEPT !.completed = JsNot(@)]
     IN Mutate([items EXCEPT ![i] = updatedItem], CdcOf("update", updatedItem))
  /\ UNCHANGED nextId

removeItem(i) ==
  /\ Visible(i)
  /\ LET updatedItem == [items[i] EXCEPT !.deleted_at = DelStamp]
     IN Mutate([items EXCEPT ![i] = updatedItem], CdcOf("update", updatedItem))
  /\ UNCHANGED nextId

saveEditing(i, editingName) ==
  /\ Visible(i)
  /\ LET updatedItem == [items[i] EXCEPT !.name = editingName]
     IN Mutate([items EXCEPT ![i] = updatedItem], CdcOf("update", updatedItem))
  /\ UNCHANGED nextId

\* ------------------------------------------------------------------ timers, page

\* document visibilitychange
VisibilityChange ==
  /\ flips < MaxFlips
  /\ flips' = flips + 1
  /\ isPageVisible' = ~isPageVisible
  /\ SetRefs(handleVisibilityChange(Refs, ~isPageVisible, Cursor), 0)
  /\ UNCHANGED <<items, cdcChanges, lastSequenceNumber, storageVars, pushes, nextId,
                 lastPullLen, edits, reloads, log, otherAnswer, posts, authVars>>

\* the setInterval of startPolling fires
PollTick ==
  /\ pollingIntervalRef # <<>>
  /\ SetRefs(pollForChanges(Refs, pollingIntervalRef[1], Cursor, <<>>), 0)
  /\ UNCHANGED <<items, cdcChanges, isPageVisible, lastSequenceNumber, storageVars,
                 pushes, nextId, lastPullLen, edits, flips, reloads, log, otherAnswer, posts, authVars>>

Push(kind, changes, env) ==
  [kind |-> kind, changes |-> changes, env |-> env, stage |-> "sent",
   sequence_number |-> 0]

\* the debounce setTimeout fires: the callback owns no guard
DebounceFire ==
  /\ syncTimerRef = "armed"
  /\ SetRefs([Refs EXCEPT !.owner = "timer", !.status = "syncing",
                          !.timer = "stale", !.closure = <<>>], 1)
  /\ pushes' = Append(pushes, Push("timer", timerClosure[1].changes, timerClosure[1].env))
  /\ UNCHANGED <<items, cdcChanges, isPageVisible, lastSequenceNumber, storageVars,
                 nextId, lastPullLen, edits, flips, reloads, log, otherAnswer, posts, authVars>>

\* a click on the status dot, which carries syncNow only while the status is
\* idle and the queue is not empty
syncNow ==
  /\ syncStatus = "idle"
  /\ cdcChanges # <<>>
  /\ SetRefs([Refs EXCEPT !.owner = "manual", !.status = "syncing",
                          !.timer = "null", !.closure = <<>>], 1)
  /\ pushes' = Append(pushes, Push("manual", cdcChanges, CurrentEnv))
  /\ UNCHANGED <<items, cdcChanges, isPageVisible, lastSequenceNumber, storageVars,
                 nextId, lastPullLen, edits, flips, reloads, log, otherAnswer, posts, authVars>>

\* ------------------------------------------------------------------ gateway

\* (mutant) each INSERT runs as the loop reaches it: the changes before the
\* first refused one are in the table when the request fails
MutInsertChanges(table, changes) ==
  LET bad == {i \in DOMAIN changes : Malformed(changes[i]) \/ ~CheckChange(changes[i])}
  IN IF bad = {}
     THEN [table |-> BatchInsert(table, changes), status |-> 200]
     ELSE LET k == CHOOSE i \in bad : \A j \in bad : i <= j
          IN [table |-> BatchInsert(table, SubSeq(changes, 1, k - 1)),
              status |-> IF Malformed(changes[k]) THEN 400 ELSE 500]

\* insertChanges up to the end of env.DB.batch: 400 at the first refused
\* change, 500 when a statement of the batch breaks the CHECK constraint (the
\* batch is one transaction), else the rows are added
insertChanges(table, changes) ==
  IF \E i \in DOMAIN changes : Malformed(changes[i])
  THEN [table |-> table, status |-> 400]
  ELSE IF \E i \in DOMAIN changes : ~CheckChange(changes[i])
  THEN [table |-> table, status |-> 500]
  ELSE [table |-> BatchInsert(table, changes), status |-> 200]

\* SELECT MAX(sequence_number) as max_seq, 0 when it is null
selectMax(table) == MaxSeq(table)

RemoveAt(s, i) == SubSeq(s, 1, i - 1) \o SubSeq(s, i + 1, Len(s))

\* POST /changes of the client reaches the worker: validation and batch
ServeInsert(i) ==
  /\ i \in DOMAIN pushes
  /\ pushes[i].stage = "sent"
  /\ Len(log) + Len(pushes[i].changes) <= MaxLog
  /\ LET r == insertChanges(log, pushes[i].changes)
     IN /\ log' = r.table
        /\ pushes' = [pushes EXCEPT ![i].stage =
                        IF r.status = 200 THEN "inserted" ELSE "refused"]
  /\ UNCHANGED <<reactVars, refVars, storageVars, poll, nextId, lastPullLen, edits,
                 flips, reloads, rounds, otherAnswer, posts, authVars>>

\* the worker's second statement, after the await of the batch
ServeSelectMax(i) ==
  /\ i \in DOMAIN pushes
  /\ pushes[i].stage = "inserted"
  /\ pushes' = [pushes EXCEPT ![i].stage = "ok",
                              ![i].sequence_number = selectMax(log)]
  /\ UNCHANGED <<reactVars, refVars, storageVars, poll, nextId, lastPullLen, edits,
                 flips, reloads, rounds, log, otherAnswer, posts, authVars>>

\* GET /changes?after_sequence= of the client is answered
ServeGetChanges ==
  /\ poll # <<>>
  /\ poll[1].stage = "sent"
  /\ poll' = <<[poll[1] EXCEPT !.stage = "ok",
                               !.response = <<getChanges(log, poll[1].after)>>,
                               !.servedAt = Len(log)]>>
  /\ UNCHANGED <<reactVars, refVars, storageVars, pushes, nextId, lastPullLen, edits,
                 flips, reloads, rounds, log, otherAnswer, posts, authVars>>

\* what the other clients post: well-formed changes and refused ones, each
\* with a sequence_number of the sender's own
OtherChange(id, change, name, completed, deleted_at) ==
  [id |-> id, change |-> change, name |-> name, completed |-> completed,
   deleted_at |-> deleted_at, sequence_number |-> 1]

PeerChanges ==
  { OtherChange(OtherId, "create", "Eggs", "false", NULL),
    OtherChange(1, "update", "Eggs", "true", NULL),
    OtherChange(1, "update", "Milk", "false", DelStamp) }

RefusedChanges ==
  { OtherChange(EmptyId, "create", "Milk", "false", NULL),
    OtherChange(OtherId, "", "Milk", "false", NULL),
    OtherChange(OtherId, "delete", "Milk", "false", NULL),
    OtherChange(OtherId, "update", NULL, "false", NULL) }

\* the batches of well-formed changes
PeerBatches == {<<c>> : c \in PeerChanges}

\* every batch of one or two changes
OtherBatches ==
  LET all == PeerChanges \cup RefusedChanges
  IN {<<c>> : c \in all} \cup {<<c, d>> : c \in all, d \in all}

\* POST /changes of another client, served in one step
OtherAppend(changes) ==
  /\ Len(insertChanges(log, changes).table) <= MaxLog
  /\ LET r == insertChanges(log, changes)
     IN /\ log' = r.table
        /\ otherAnswer' = <<[method |-> "POST", request |-> changes,
                             status |-> r.status,
                             sequence_number |-> IF r.status = 200
                                                 THEN selectMax(r.table) ELSE 0]>>
  /\ UNCHANGED <<clientVars, posts, authVars>>

\* ------------------------------------------------------------------ completions

\* sendChangesToBackend resolves with data.sequence_number: the rest of
\* syncWithBackend (timer or manual), the render and its effects
PushDone(i) ==
  /\ i \in DOMAIN pushes
  /\ pushes[i].stage = "ok"
  /\ pushes[i].sequence_number # 0
  /\ LET sequenceNumber == pushes[i].sequence_number
         R0 == [Refs EXCEPT !.owner = NULL, !.status = "idle"]
         R1 == pollThenStartPolling(R0, pushes[i].env, sequenceNumber)
         env == Env(R1.status, isPageVisible, sequenceNumber)
     IN /\ SetRefs(cdcEffects(R1, cdcChanges, <<>>, env, isPageVisible, sequenceNumber), 0)
        /\ storedSeq' = saveLastSequenceNumber(sequenceNumber)
        /\ lastSequenceNumber' = sequenceNumber
        /\ cdcChanges' = <<>>
        /\ storedCdc' = <<>>
        /\ items' = clearDeletedItems(items)
        /\ storedItems' = clearDeletedItems(items)
  /\ pushes' = RemoveAt(pushes, i)
  /\ UNCHANGED <<isPageVisible, nextId, lastPullLen, edits, flips, reloads, log,
                 otherAnswer, posts, authVars>>

\* (mutant) the queue is cleared whatever sendChangesToBackend resolved with
MutPushFailed(i) ==
  /\ i \in DOMAIN pushes
  /\ LET R0 == [Refs EXCEPT !.owner = NULL, !.status = "idle"]
         R1 == pollThenStartPolling(R0, pushes[i].env, Cursor)
         env == Env(R1.status, isPageVisible, lastSequenceNumber)
     IN SetRefs(cdcEffects(R1, cdcChanges, <<>>, env, isPageVisible, Cursor), 0)
  /\ cdcChanges' = <<>>
  /\ storedCdc' = <<>>
  /\ pushes' = RemoveAt(pushes, i)
  /\ UNCHANGED <<items, isPageVisible, lastSequenceNumber, storedItems, storedSeq,
                 nextId, lastPullLen, edits, flips, reloads, log, otherAnswer, posts, authVars>>

\* sendChangesToBackend resolves with null: fetch threw, the answer was not
\* 2xx, or it carried no sequence number
PushFailed(i) ==
  /\ i \in DOMAIN pushes
  /\ pushes[i].stage = "ok" => pushes[i].sequence_number # 0
  /\ LET R0 == [Refs EXCEPT !.owner = NULL, !.status = "idle"]
     IN SetRefs(pollThenStartPolling(R0, pushes[i].env, Cursor), 0)
  /\ pushes' = RemoveAt(pushes, i)
  /\ UNCHANGED <<items, cdcChanges, isPageVisible, lastSequenceNumber, storageVars,
                 nextId, lastPullLen, edits, flips, reloads, log, otherAnswer, posts, authVars>>

\* the rest of pollForChanges after fetchChangesFromBackend resolved with
\* response, then the startPolling of the sync that awaited this poll
PollEnd(response) ==
  LET newer == response.max_sequence > poll[1].lastSequenceNumber
      newItems == applyBackendChanges(items, response.changes)
      R0 == [Refs EXCEPT !.isPolling = FALSE, !.poll = <<>>,
                         !.status = IF syncStatusOwnerRef = "polling" THEN "idle" ELSE @,
                         !.owner = IF @ = "polling" THEN NULL ELSE @]
  IN /\ SetRefs(IF poll[1].cont = <<>> THEN R0 ELSE startPolling(R0, poll[1].cont[1]), 0)
     /\ lastSequenceNumber' = IF newer THEN response.max_sequence ELSE lastSequenceNumber
     /\ storedSeq' = IF newer THEN saveLastSequenceNumber(response.max_sequence)
                     ELSE storedSeq
     /\ items' = newItems
     /\ storedItems' = newItems
     /\ UNCHANGED <<cdcChanges, isPageVisible, storedCdc, pushes, nextId, edits, flips,
                    reloads, log, otherAnswer, posts, authVars>>

PollDone ==
  /\ poll # <<>>
  /\ poll[1].stage = "ok"
  /\ PollEnd(poll[1].response[1])
  /\ lastPullLen' = poll[1].servedAt

\* fetch threw or the answer was not 2xx: no changes, max_sequence read again
\* from localStorage
PollFailed ==
  /\ poll # <<>>
  /\ PollEnd([changes |-> <<>>, max_sequence |-> Cursor])
  /\ UNCHANGED lastPullLen

\* ------------------------------------------------------------------ specification

Next ==
  \/ \E name \in Names : addItem(name)
  \/ \E i \in 1..MaxIds + 1 : toggleItem(i)
  \/ \E i \in 1..MaxIds + 1 : removeItem(i)
  \/ \E i \in 1..MaxIds + 1, name \in Names : saveEditing(i, name)
  \/ VisibilityChange
  \/ PollTick
  \/ DebounceFire
  \/ syncNow
  \/ \E i \in 1..MaxRounds : ServeInsert(i)
  \/ \E i \in 1..MaxRounds : ServeSelectMax(i)
  \/ \E i \in 1..MaxRounds : PushDone(i)
  \/ \E i \in 1..MaxRounds : PushFailed(i)
  \/ ServeGetChanges
  \/ PollDone
  \/ PollFailed
  \/ \E changes \in PeerBatches : OtherAppend(changes)
  \/ Reload

Spec == Init /\ [][Next]_vars

\* the answer to a GET /changes whose query string gave seqNumStr
GetAnswer(seqNumStr, status, changes, max_sequence) ==
  [method |-> "GET", request |-> seqNumStr, after |-> AfterSequence(seqNumStr),
   status |-> status, changes |-> changes, max_sequence |-> max_sequence]

\* (mutant) the rows a GET delivers are deleted from the table
MutOtherGet(seqNumStr) ==
  /\ LET afterSequence == AfterSequence(seqNumStr)
     IN IF afterSequence = NaN
        THEN /\ otherAnswer' = <<GetAnswer(seqNumStr, 200, <<>>, <<>>)>>
             /\ log' = log
        ELSE LET body == getChanges(log, afterSequence[1])
             IN /\ otherAnswer' = <<GetAnswer(seqNumStr, 200, body.changes,
                                              <<body.max_sequence>>)>>
                /\ log' = SelectSeq(log, LAMBDA r : r.sequence_number <= afterSequence[1])
  /\ UNCHANGED <<clientVars, posts, authVars>>

\* GET /changes of another client, served in one step. When parseInt gave NaN
\* the statement is bound to NaN: either the binding throws (500), or NaN is
\* bound as NULL, no row compares greater, and max_sequence: NaN is sent as null
OtherGet(seqNumStr) ==
  /\ LET afterSequence == AfterSequence(seqNumStr)
     IN IF afterSequence = NaN
        THEN otherAnswer' \in {<<GetAnswer(seqNumStr, 500, <<>>, <<>>)>>,
                               <<GetAnswer(seqNumStr, 200, <<>>, <<>>)>>}
        ELSE LET body == getChanges(log, afterSequence[1])
             IN otherAnswer' = <<GetAnswer(seqNumStr, 200, body.changes,
                                           <<body.max_sequence>>)>>
  /\ UNCHANGED <<clientVars, log, posts, authVars>>

\* The gateway alone: the requests of the other clients, refused batches among
\* them, and the GET the client sent when it mounted.
GatewayNext ==
  \/ \E changes \in OtherBatches : OtherAppend(changes)
  \/ \E seqNumStr \in QueryStrings : OtherGet(seqNumStr)
  \/ ServeGetChanges

GatewaySpec == Init /\ [][GatewayNext]_vars

\* a POST /changes of another client as the worker receives it; first is
\* history: the place in the log of the first row of its batch
Post(changes) ==
  [changes |-> changes, stage |-> "sent", first |-> 0, status |-> 0,
   sequence_number |-> 0]

OtherPost(changes) ==
  /\ Len(posts) < MaxPosts
  /\ posts' = Append(posts, Post(changes))
  /\ UNCHANGED <<clientVars, log, otherAnswer, authVars>>

\* insertChanges of request k up to the end of await env.DB.batch(batch)
WorkerInsert(k) ==
  /\ k \in DOMAIN posts
  /\ posts[k].stage = "sent"
  /\ LET r == insertChanges(log, posts[k].changes)
     IN /\ Len(r.table) <= MaxAppendLog
        /\ log' = r.table
        /\ posts' = [posts EXCEPT ![k] =
                       IF r.status = 200
                       THEN [@ EXCEPT !.stage = "inserted", !.first = Len(log) + 1]
                       ELSE [@ EXCEPT !.stage = "answered", !.status = r.status]]
  /\ UNCHANGED <<clientVars, otherAnswer, authVars>>

\* insertChanges of request k from SELECT MAX(sequence_number) to its answer
WorkerSelectMax(k) ==
  /\ k \in DOMAIN posts
  /\ posts[k].stage = "inserted"
  /\ posts' = [posts EXCEPT ![k].stage = "answered", ![k].status = 200,
                            ![k].sequence_number = selectMax(log)]
  /\ UNCHANGED <<clientVars, log, otherAnswer, authVars>>

\* the batches other clients post while another request is handled
ConcurrentBatches == PeerBatches \cup {<<c, d>> : c \in PeerChanges, d \in PeerChanges}

\* The worker handling the POST requests of several clients: the awaits of
\* insertChanges are where the requests interleave.
AppendNext ==
  \/ \E changes \in ConcurrentBatches : OtherPost(changes)
  \/ \E k \in 1..MaxPosts : WorkerInsert(k)
  \/ \E k \in 1..MaxPosts : WorkerSelectMax(k)

AppendSpec == Init /\ [][AppendNext]_vars

\* ------------------------------------------------------------------ /auth/verify

\* a POST /auth/verify as the worker receives it; due is history: whether, when
\* checkRateLimit ran for it, the ip had made MAX_ATTEMPTS failed verifications
\* within the hour, with no success since and no lockout that has expired
Verify(ip, origin, password) ==
  [ip |-> ip, origin |-> origin, password |-> password, stage |-> "received",
   attemptsLeft |-> MAX_ATTEMPTS, existingRecord |-> <<>>, lockUntil |-> <<>>,
   due |-> FALSE]

\* the answer of verifyPassword to request v
VerifyAnswer(v, status, valid, attemptsLeft, resetTime) ==
  [ip |-> v.ip, origin |-> v.origin, password |-> v.password, due |-> v.due,
   status |-> status, valid |-> valid, attemptsLeft |-> attemptsLeft,
   locked |-> (valid = "false" /\ resetTime # <<>>), resetTime |-> resetTime,
   headers |-> corsResponse(status, <<v>>)]

Due(h, t) ==
  /\ h.count >= MAX_ATTEMPTS
  /\ t <= h.since + Hour
  /\ (h.lockUntil = <<>> \/ t < h.lockUntil[1])

VerifyArrive(ip, origin, password) ==
  /\ Len(verifies) < MaxVerifies
  /\ failedHist.count < MaxFailed
  /\ verifies' = Append(verifies, Verify(ip, origin, password))
  /\ UNCHANGED <<clientVars, log, otherAnswer, posts, loginAttempts, now, authAnswer,
                 failedHist, ticks>>

\* verifyPassword of request k from checkRateLimit to the SELECT on passwords:
\* 429 when limited, 400 when the payload has no password
VerifyCheck(k) ==
  /\ k \in DOMAIN verifies
  /\ verifies[k].stage = "received"
  /\ LET v == [verifies[k] EXCEPT !.due = Due(failedHist, now)]
         rateLimitCheck == checkRateLimit(loginAttempts, v.ip, now)
     IN /\ loginAttempts' = rateLimitCheck.table
        /\ IF rateLimitCheck.limited
           THEN /\ authAnswer' = <<VerifyAnswer(v, 429, UNDEFINED, 0,
                                                rateLimitCheck.resetTime)>>
                /\ verifies' = RemoveAt(verifies, k)
           ELSE IF v.password = ""
           THEN /\ authAnswer' = <<VerifyAnswer(v, 400, UNDEFINED,
                                                rateLimitCheck.attemptsLeft, <<>>)>>
                /\ verifies' = RemoveAt(verifies, k)
           ELSE /\ authAnswer' = authAnswer
                /\ verifies' = [verifies EXCEPT ![k] =
                     [v EXCEPT !.stage = IF v.password \in StoredPasswords
                                         THEN "valid" ELSE "invalid"]]
  /\ UNCHANGED <<clientVars, log, otherAnswer, posts, now, failedHist, ticks>>

\* the password is in the table: resetFailedAttempts and the answer
VerifyReset(k) ==
  /\ k \in DOMAIN verifies
  /\ verifies[k].stage = "valid"
  /\ loginAttempts' = resetFailedAttempts(loginAttempts, verifies[k].ip)
  /\ authAnswer' = <<VerifyAnswer(verifies[k], 200, "true", MAX_ATTEMPTS, <<>>)>>
  /\ verifies' = RemoveAt(verifies, k)
  /\ failedHist' = [count |-> 0, since |-> 0, lockUntil |-> <<>>]
  /\ UNCHANGED <<clientVars, log, otherAnswer, posts, now, ticks>>

\* recordFailedAttempt up to the end of its SELECT
VerifyRead(k) ==
  /\ k \in DOMAIN verifies
  /\ verifies[k].stage = "invalid"
  /\ verifies' = [verifies EXCEPT ![k].stage = "read",
                    ![k].existingRecord = SelectAttemptCount(loginAttempts, verifies[k].ip)]
  /\ UNCHANGED <<clientVars, log, otherAnswer, posts, loginAttempts, now, authAnswer,
                 failedHist, ticks>>

\* recordFailedAttempt from its UPDATE or INSERT to its return
VerifyWrite(k) ==
  /\ k \in DOMAIN verifies
  /\ verifies[k].stage = "read"
  /\ LET r == recordFailedAttempt(loginAttempts, verifies[k].ip, now,
                                  verifies[k].existingRecord)
     IN /\ loginAttempts' = r.table
        /\ verifies' = [verifies EXCEPT ![k].stage = "written",
                                        ![k].lockUntil = r.lockUntil]
  /\ UNCHANGED <<clientVars, log, otherAnswer, posts, now, authAnswer, failedHist, ticks>>

\* the second checkRateLimit and the answer valid: false
VerifyFailed(k) ==
  /\ k \in DOMAIN verifies
  /\ verifies[k].stage = "written"
  /\ LET v == verifies[k]
         updatedCheck == checkRateLimit(loginAttempts, v.ip, now)
     IN /\ loginAttempts' = updatedCheck.table
        /\ authAnswer' = <<VerifyAnswer(v, 200, "false", updatedCheck.attemptsLeft,
                                        v.lockUntil)>>
        /\ failedHist' = [count |-> failedHist.count + 1,
                          since |-> IF failedHist.count = 0 THEN now ELSE failedHist.since,
                          lockUntil |-> IF v.lockUntil # <<>> THEN v.lockUntil
                                        ELSE failedHist.lockUntil]
  /\ verifies' = RemoveAt(verifies, k)
  /\ UNCHANGED <<clientVars, log, otherAnswer, posts, now, ticks>>

\* time passes: the length of a lockout, or an hour
Tick(d) ==
  /\ ticks < MaxTicks
  /\ ticks' = ticks + 1
  /\ now' = now + d
  /\ UNCHANGED <<clientVars, log, otherAnswer, posts, loginAttempts, verifies,
                 authAnswer, failedHist>>

\* The worker handling the POST /auth/verify requests of one address: the
\* awaits of verifyPassword are where the requests interleave.
AuthNext ==
  \/ \E ip \in Ips : \E password \in SentPasswords :
       VerifyArrive(ip, AppOrigin, password)
  \/ \E k \in 1..MaxVerifies : VerifyCheck(k)
  \/ \E k \in 1..MaxVerifies : VerifyReset(k)
  \/ \E k \in 1..MaxVerifies : VerifyRead(k)
  \/ \E k \in 1..MaxVerifies : VerifyWrite(k)
  \/ \E k \in 1..MaxVerifies : VerifyFailed(k)
  \/ \E d \in {LOCKOUT_DURATION, Hour} : Tick(d)

AuthSpec == Init /\ [][AuthNext]_vars

\* ------------------------------------------------------------------ fetch

\* a request as the router and the CORS helpers read it
Request(method, path, origin) == [method |-> method, path |-> path, origin |-> origin]

\* a response: the request, the status and the CORS headers
Response(request, r) ==
  [method |-> request.method, path |-> request.path, origin |-> request.origin,
   status |-> r.status, allowOrigin |-> r.allowOrigin,
   allowCredentials |-> r.allowCredentials]

\* the paths of the CDC routes
ChangesPaths == {"/api/changes", "/changes"}

\* requests no route matches: an unknown path, a method a route does not serve
Unrouted == {<<"GET", "/">>, <<"PUT", "/changes">>, <<"GET", "/auth/verify">>}

\* the payloads of POST /changes: <<>> when payload.changes is not an array,
\* else <<changes>>
Payloads ==
  {<<>>} \cup {<<batch>> : batch \in PeerBatches \cup {<<c>> : c \in RefusedChanges}}

\* the after_sequence of the GET requests: omitted, and not a number
FetchQueries == {SearchParam(FALSE, <<>>), SearchParam(TRUE, <<"a">>)}

\* OPTIONS of any path
Preflight(path, origin) ==
  /\ otherAnswer' = <<Response(Request("OPTIONS", path, origin),
                               handleCORS(<<Request("OPTIONS", path, origin)>>))>>
  /\ UNCHANGED <<clientVars, log, posts, authVars>>

\* GET of a CDC path: getChanges(env, afterSequence, request)
FetchGet(path, origin, seqNumStr) ==
  /\ \E status \in IF AfterSequence(seqNumStr) = NaN THEN {500, 200} ELSE {200} :
       otherAnswer' = <<Response(Request("GET", path, origin),
                                 corsResponse(status, <<Request("GET", path, origin)>>))>>
  /\ UNCHANGED <<clientVars, log, posts, authVars>>

\* POST of a CDC path: insertChanges(request, env), whose two 400 answers are
\* built without the request
FetchPost(path, origin, payload) ==
  LET request == Request("POST", path, origin)
  IN /\ IF payload = <<>>
        THEN /\ log' = log
             /\ otherAnswer' = <<Response(request, corsResponse(400, <<>>))>>
        ELSE LET r == insertChanges(log, payload[1])
             IN /\ Len(r.table) <= MaxLog
                /\ log' = r.table
                /\ otherAnswer' = <<Response(request,
                                     IF r.status = 400 THEN corsResponse(400, <<>>)
                                     ELSE corsResponse(r.status, <<request>>))>>
     /\ UNCHANGED <<clientVars, posts, authVars>>

\* POST of an auth path while no other is handled
FetchVerify(origin, password) ==
  /\ verifies = <<>>
  /\ \E ip \in Ips : VerifyArrive(ip, origin, password)

\* the default response for unmatched routes
NotFound(route, origin) ==
  /\ otherAnswer' = <<Response(Request(route[1], route[2], origin), NotFoundResponse)>>
  /\ UNCHANGED <<clientVars, log, posts, authVars>>

\* The router: every kind of request, one at a time.
FetchNext ==
  \/ \E path \in ChangesPaths : \E origin \in Origins : Preflight(path, origin)
  \/ \E path \in ChangesPaths : \E origin \in Origins : \E seqNumStr \in FetchQueries :
       FetchGet(path, origin, seqNumStr)
  \/ \E path \in ChangesPaths : \E origin \in Origins : \E payload \in Payloads :
       FetchPost(path, origin, payload)
  \/ \E origin \in Origins : \E password \in SentPasswords : FetchVerify(origin, password)
  \/ VerifyCheck(1)
  \/ VerifyReset(1)
  \/ VerifyRead(1)
  \/ VerifyWrite(1)
  \/ VerifyFailed(1)
  \/ \E route \in Unrouted : \E origin \in Origins : NotFound(route, origin)

FetchSpec == Init /\ [][FetchNext]_vars

\* ------------------------------------------------------------------ staged queues

\* the caches a page is loaded with: empty, one item of this client, and that
\* item with one of another client
StagedCaches ==
  LET own == [id |-> 1, name |-> "Milk", completed |-> "false", deleted_at |-> NULL]
      other == [id |-> OtherId, name |-> "Eggs", completed |-> "true", deleted_at |-> NULL]
  IN {<<>>, <<own>>, <<own, other>>}

\* the records a queue of that page can hold: this client created item 1 and
\* edited both
StagedRecords(cache) ==
  {c \in [id : ItemIdsOf(cache), change : {"create", "update"}, name : Names,
          completed : {"true", "false"}, deleted_at : {NULL}] :
     c.change = "create" => c.id = 1}

\* the queues localStorage can hold: sorted, one record for an id and a kind
StagedQueues(cache) ==
  {q \in UNION {[1..n -> StagedRecords(cache)] : n \in 0..MaxStaged} :
     /\ \A i \in DOMAIN q : \A j \in DOMAIN q : SameKey(q[i], q[j]) => i = j
     /\ q = sortCdcChanges(q)}

\* The component mounted on the items and the queue localStorage holds.
RecordInit ==
  /\ storedItems \in StagedCaches
  /\ storedCdc \in StagedQueues(storedItems)
  /\ items = storedItems
  /\ cdcChanges = loadCdcFromLocalStorage(storedCdc)
  /\ LET R == MountRefs(cdcChanges, 0, TRUE)
     IN /\ syncStatus = R.status
        /\ syncTimerRef = R.timer
        /\ timerClosure = R.closure
        /\ pollingIntervalRef = R.interval
        /\ isPollingRef = R.isPolling
        /\ syncStatusOwnerRef = R.owner
        /\ handler = R.handler
        /\ poll = R.poll
  /\ isPageVisible = TRUE
  /\ lastSequenceNumber = 0
  /\ storedSeq = <<>>
  /\ pushes = <<>>
  /\ log = <<>>
  /\ otherAnswer = <<>>
  /\ posts = <<>>
  /\ AuthInit
  /\ nextId = IF items = <<>> THEN 1 ELSE MaxIds + 1
  /\ lastPullLen = 0
  /\ edits = 0
  /\ flips = 0
  /\ reloads = 0
  /\ rounds = 1

\* the user edits the list before a timer fires
RecordNext ==
  \/ \E name \in Names : addItem(name)
  \/ \E i \in 1..MaxIds + 1 : toggleItem(i)
  \/ \E i \in 1..MaxIds + 1 : removeItem(i)
  \/ \E i \in 1..MaxIds + 1, name \in Names : saveEditing(i, name)

RecordSpec == RecordInit /\ [][RecordNext]_vars

\* One client and no other writer; the user touches the list only while no
\* push is in flight.
RoundTripNext ==
  \/ pushes = <<>> /\ \E name \in Names : addItem(name)
  \/ pushes = <<>> /\ \E i \in 1..(MaxIds + 1) : toggleItem(i)
  \/ pushes = <<>> /\ \E i \in 1..(MaxIds + 1) : removeItem(i)
  \/ pushes = <<>> /\ \E i \in 1..(MaxIds + 1), name \in Names : saveEditing(i, name)
  \/ VisibilityChange
  \/ PollTick
  \/ DebounceFire
  \/ syncNow
  \/ \E i \in 1..MaxRounds : ServeInsert(i)
  \/ \E i \in 1..MaxRounds : ServeSelectMax(i)
  \/ \E i \in 1..MaxRounds : PushDone(i)
  \/ \E i \in 1..MaxRounds : PushFailed(i)
  \/ ServeGetChanges
  \/ PollDone
  \/ PollFailed
  \/ Reload

RoundTripSpec == Init /\ [][RoundTripNext]_vars

\* the records a pull can deliver: whole rows, and an update that carries no
\* name and no deleted_at
PulledRecords ==
  [id : {1, OtherId}, change : {"create", "update"}, name : Names,
   completed : {"true", "0"}, deleted_at : {NULL, DelStamp}]
  \cup {[id |-> 1, change |-> "update", completed |-> "true"]}

\* the changes of an answer: its records numbered from 1
Numbered(changes) ==
  [i \in DOMAIN changes |-> changes[i] @@ [sequence_number |-> i]]

PulledBatches ==
  {<<c>> : c \in PulledRecords} \cup {<<c, d>> : c \in PulledRecords, d \in PulledRecords}

\* the caches a pull finds: empty, or one item of this client
FoldCaches == {<<>>, <<[id |-> 1, name |-> "Eggs", completed |-> "false", deleted_at |-> NULL]>>}

\* The mounted component, its first poll answered: the cache and the records
\* of the answer are drawn from FoldCaches and PulledBatches.
FoldInit ==
  LET R == MountRefs(<<>>, 0, TRUE)
  IN /\ items \in FoldCaches
     /\ storedItems = items
     /\ \E changes \in PulledBatches :
          poll = <<[R.poll[1] EXCEPT
                      !.stage = "ok",
                      !.response = <<[changes |-> Numbered(changes),
                                      max_sequence |-> Len(changes)]>>]>>
     /\ cdcChanges = <<>>
     /\ syncStatus = R.status
     /\ isPageVisible = TRUE
     /\ lastSequenceNumber = 0
     /\ syncTimerRef = R.timer
     /\ timerClosure = R.closure
     /\ pollingIntervalRef = R.interval
     /\ isPollingRef = R.isPolling
     /\ syncStatusOwnerRef = R.owner
     /\ handler = R.handler
     /\ storedCdc = <<>>
     /\ storedSeq = <<>>
     /\ pushes = <<>>
     /\ log = <<>>
     /\ otherAnswer = <<>>
     /\ posts = <<>>
     /\ AuthInit
     /\ nextId = 1
     /\ lastPullLen = 0
     /\ edits = 0
     /\ flips = 0
     /\ reloads = 0
     /\ rounds = 1

\* the fold of the answer into the cache, as pollForChanges does it
FoldNext == PollDone

FoldSpec == FoldInit /\ [][FoldNext]_vars

\* ------------------------------------------------------------------ claims

InFlight == Len(pushes) + Len(poll)

\* C1: the PendingQueue never holds two records with the same id and the same
\* change kind, whatever mutations, pushes and reloads happened.
C1_OnePerIdAndKind ==
  \A i, j \in DOMAIN cdcChanges : i < j => ~SameKey(cdcChanges[i], cdcChanges[j])

\* two mutations of one kind to one id were recorded and no push or reload
\* emptied the queue: it holds the one record
C1_Witness ==
  /\ edits = 2 /\ reloads = 0 /\ rounds = 1
  /\ Len(cdcChanges) = 1 /\ cdcChanges[1].change = "update"

\* C2: the PendingQueue, in memory and as stored, is sorted by id, and for one
\* id the create record comes before the update record.
C2_QueueSorted ==
  \A q \in {cdcChanges, storedCdc} :
    \A i, j \in DOMAIN q :
      i < j => /\ q[i].id <= q[j].id
               /\ q[i].id = q[j].id => ~(q[i].change = "update" /\ q[j].change = "create")

\* a queue with records of two ids has been loaded from storage
C2_Witness ==
  /\ reloads = 1 /\ Len(cdcChanges) = 2 /\ cdcChanges[1].id < cdcChanges[2].id

\* C3: the queue loses records only in the step that consumes the answer of a
\* push carrying a sequence number, which empties it; a push that ends without
\* such an answer leaves the queue, in memory and as stored, as it was.
C3_ClearedOnlyOnAck ==
  [][/\ (cdcChanges' # cdcChanges /\ edits' = edits /\ reloads' = reloads)
        => /\ cdcChanges' = <<>>
           /\ \E i \in DOMAIN pushes :
                /\ pushes[i].stage = "ok" /\ pushes[i].sequence_number # 0
                /\ pushes' = RemoveAt(pushes, i)
                /\ storedSeq' = <<pushes[i].sequence_number>>
     /\ \A i \in DOMAIN pushes :
          (pushes' = RemoveAt(pushes, i) /\ reloads' = reloads /\ pushes[i].stage # "ok")
          => (cdcChanges' = cdcChanges /\ storedCdc' = storedCdc)]_vars

\* the debounce timer fired, its push ended, and the queue is still there
C3_Witness ==
  /\ cdcChanges # <<>> /\ pushes = <<>> /\ syncTimerRef = "stale" /\ reloads = 0

\* C4 (as claimed): the stored cursor never decreases.
C4_CursorMonotone ==
  [][getLastSequenceNumber(storedSeq') >= getLastSequenceNumber(storedSeq)]_vars

\* C5 (as claimed): at most one round trip, push or poll, is in flight.
C5_OneRoundTrip == InFlight <= 1

\* C6 (as claimed): a push that ends while the recorded owner is not its own
\* kind changes neither the scheduler state nor the owner.
C6_OwnerChecked ==
  [][\A i \in DOMAIN pushes :
       (pushes' = RemoveAt(pushes, i) /\ reloads' = reloads
        /\ syncStatusOwnerRef # pushes[i].kind)
       => (syncStatusOwnerRef' = syncStatusOwnerRef /\ syncStatus' = syncStatus)]_vars

\* the items a user sees, completed read as a boolean
View(list) ==
  {[id |-> list[i].id, name |-> list[i].name, completed |-> Truthy(list[i].completed)] :
     i \in {k \in DOMAIN list : NotDeleted(list[k])}}

\* the queue is empty, nothing is in flight, and the last pull was served
\* after the last append
Quiescent ==
  /\ cdcChanges = <<>> /\ InFlight = 0 /\ lastPullLen = Len(log)

\* C7 (as claimed): at quiescence the client's visible items are those of the
\* whole log folded in sequence order.
C7_Converged ==
  Quiescent => View(items) = View(applyBackendChanges(<<>>, log))

\* C8 (as claimed): while the queue is not empty and no push is in flight, the
\* debounce timer, the only timer whose callback pushes, is armed.
C8_RetryArmed ==
  (cdcChanges # <<>> /\ pushes = <<>>) => syncTimerRef = "armed"

\* C9: sequence numbers in the log are positive and strictly increasing in
\* append order (so distinct), whatever sequence_number a pushed change carries.
C9_SequenceNumbers ==
  /\ \A i \in DOMAIN log : log[i].sequence_number >= 1
  /\ \A i, j \in DOMAIN log : i < j => log[i].sequence_number < log[j].sequence_number

\* two changes that each carried the sender's sequence_number 1 are in the log
C9_Witness ==
  /\ Len(log) = 2 /\ otherAnswer # <<>> /\ otherAnswer[1].status = 200

\* C10: every step keeps the log as a prefix of the next log.
C10_AppendOnly ==
  [][/\ Len(log') >= Len(log)
     /\ SubSeq(log', 1, Len(log)) = log]_vars

\* a batch has been refused while the log held rows, and the rows are there
C10_Witness ==
  /\ log # <<>> /\ otherAnswer # <<>> /\ otherAnswer[1].status \in {400, 500}

\* a record the gateway is specified to refuse: empty id, a change that is
\* not create or update, or a name that is not a string
Invalid(change) ==
  change.id = EmptyId \/ change.change \notin {"create", "update"} \/ change.name = NULL

LastPost == otherAnswer # <<>> /\ otherAnswer[1].method = "POST"

LastGet == otherAnswer # <<>> /\ otherAnswer[1].method = "GET"

\* C11: a step that serves an append whose batch holds a refused record,
\* wherever it sits in the batch, leaves the log as it was.
C11_NoPartialBatch ==
  [][(/\ otherAnswer' # <<>> /\ otherAnswer'[1].method = "POST"
      /\ \E i \in DOMAIN otherAnswer'[1].request : Invalid(otherAnswer'[1].request[i]))
     => log' = log]_vars

\* a batch whose second record is refused after a well-formed first one was
\* answered with an error, and the log has rows
C11_Witness ==
  /\ LastPost /\ Len(otherAnswer[1].request) = 2
  /\ ~Invalid(otherAnswer[1].request[1]) /\ Invalid(otherAnswer[1].request[2])
  /\ otherAnswer[1].status # 200 /\ log # <<>>

\* C12 (as claimed): an append whose batch holds a record with an empty id, a
\* change other than create and update, or a name that is not a string is
\* answered 400.
C12_Validation400 ==
  (LastPost /\ \E i \in DOMAIN otherAnswer[1].request : Invalid(otherAnswer[1].request[i]))
  => otherAnswer[1].status = 400

\* the batch of request k is in the log
Accepted(k) == posts[k].first > 0

\* C13: the rows of an accepted batch stand in the log in the order of the
\* batch, at consecutive places and with consecutive sequence numbers,
\* whatever other requests were handled meanwhile.
C13_BatchContiguous ==
  \A k \in DOMAIN posts :
    Accepted(k) =>
      \A i \in DOMAIN posts[k].changes :
        log[posts[k].first + i - 1] =
          InsertRow(posts[k].changes[i], log[posts[k].first].sequence_number + i - 1)

\* two requests, neither answered yet, have their batches in the log, the
\* second a batch of two different records behind the row of the first
C13_Witness ==
  /\ Len(posts) = 2 /\ posts[1].stage = "inserted" /\ posts[2].stage = "inserted"
  /\ posts[1].first = 1 /\ posts[2].first = 2 /\ Len(posts[2].changes) = 2
  /\ posts[2].changes[1] # posts[2].changes[2]

\* C14 (as claimed): the sequence_number a successful append answers is the
\* sequence number of the last row of its own batch.
C14_ReturnsBatchMax ==
  \A k \in DOMAIN posts :
    (Accepted(k) /\ posts[k].stage = "answered")
    => posts[k].sequence_number =
         log[posts[k].first + Len(posts[k].changes) - 1].sequence_number

\* the last request was a GET whose after_sequence the router read as a number
LastGetNumber == LastGet /\ otherAnswer[1].after # NaN

\* C15: the answer to changesSince(a) holds exactly the rows of the log with
\* sequence_number > a, each once, in ascending order, and its max is the
\* sequence number of the last row returned, or a when none is returned.
C15_ChangesSince ==
  LastGetNumber =>
    LET a == otherAnswer[1].after[1]
        changes == otherAnswer[1].changes
    IN /\ otherAnswer[1].status = 200
       /\ \A i \in DOMAIN log :
            log[i].sequence_number > a <=> \E j \in DOMAIN changes : changes[j] = log[i]
       /\ \A j \in DOMAIN changes : \E i \in DOMAIN log : changes[j] = log[i]
       /\ \A i, j \in DOMAIN changes :
            i < j => changes[i].sequence_number < changes[j].sequence_number
       /\ otherAnswer[1].max_sequence =
            IF changes = <<>> THEN <<a>> ELSE <<changes[Len(changes)].sequence_number>>
       /\ otherAnswer[1].max_sequence[1] >= a

\* with two rows in the log, changesSince(1) returned the second
C15_Witness ==
  /\ LastGetNumber /\ otherAnswer[1].after = <<1>>
  /\ Len(log) = 2 /\ Len(otherAnswer[1].changes) = 1

\* C16: a step that answers a GET leaves the log as it was; a GET with the
\* same number as the GET before it, no append between, gets the same answer;
\* a GET with a greater number X' gets only rows above X', all of them rows
\* the GET before it got.
C16_PureRead ==
  [][/\ (otherAnswer' # <<>> /\ otherAnswer'[1].method = "GET") => log' = log
     /\ poll' # poll => log' = log
     /\ (/\ LastGetNumber
         /\ otherAnswer' # <<>> /\ otherAnswer'[1].method = "GET"
         /\ otherAnswer'[1].after # NaN)
        => /\ otherAnswer'[1].after = otherAnswer[1].after
              => /\ otherAnswer'[1].changes = otherAnswer[1].changes
                 /\ otherAnswer'[1].max_sequence = otherAnswer[1].max_sequence
                 /\ otherAnswer'[1].status = otherAnswer[1].status
           /\ otherAnswer'[1].after[1] > otherAnswer[1].after[1]
              => \A j \in DOMAIN otherAnswer'[1].changes :
                   /\ otherAnswer'[1].changes[j].sequence_number > otherAnswer'[1].after[1]
                   /\ \E i \in DOMAIN otherAnswer[1].changes :
                        otherAnswer[1].changes[i] = otherAnswer'[1].changes[j]]_vars

\* the whole log has been read and its rows are still there
C16_Witness ==
  /\ LastGetNumber /\ otherAnswer[1].after = <<0>>
  /\ Len(log) = 2 /\ otherAnswer[1].changes = log

\* after_sequence was not given, was empty, or does not spell an integer
NotAnInteger(seqNumStr) ==
  ~seqNumStr.given \/ seqNumStr.text = <<>> \/ DigitPrefix(seqNumStr.text) # seqNumStr.text

\* C17 (as claimed): a GET whose after_sequence is omitted, empty or not an
\* integer is answered 200 with the whole log.
C17_DefaultsToZero ==
  (LastGet /\ NotAnInteger(otherAnswer[1].request))
  => (otherAnswer[1].status = 200 /\ otherAnswer[1].changes = log)

\* the push has been acknowledged and nothing is in flight; the cursor stands
\* at the last row, so the pull with it returns no record
RoundTripDone ==
  /\ cdcChanges = <<>> /\ InFlight = 0 /\ log # <<>>
  /\ Cursor = MaxSeq(log)
  /\ getChanges(log, Cursor).changes = <<>>

\* C18 (as claimed): with one client and no other writer, after the queue
\* has been pushed and with the cursor the push returned, the visible items
\* of the cache are those the pushed records, the rows of the log, give when
\* replayed in order.
C18_RoundTrip ==
  RoundTripDone => View(items) = View(applyBackendChanges(<<>>, log))

\* the records of the answer the poll in flight has received
Pulled == IF poll # <<>> /\ poll[1].response # <<>> THEN poll[1].response[1].changes ELSE <<>>

C20_UnknownId ==
  [][(Len(Pulled) = 1 /\ ~HasId(items, Pulled[1].id))
     => LET r == Pulled[1]
        IN /\ r.change = "update" => items' = items
           /\ (r.change = "create" /\ r.deleted_at = NULL)
              => items' = Append(items, [id |-> r.id, name |-> r.name,
                                         completed |-> r.completed,
                                         deleted_at |-> NULL])
           /\ (r.change = "create" /\ r.deleted_at # NULL) => items' = items]_vars

\* one record has been folded and the cache holds an item it made next to
\* the item it had
C20_Witness ==
  /\ Len(items) = 2 /\ items[1].id = 1 /\ items[2].id = OtherId
  /\ poll = <<>> /\ storedSeq = <<1>> /\ log = <<>>

C22_PurgeAfterAck ==
  [][\A id \in ItemIdsOf(items) \ ItemIdsOf(items') :
       \E i \in DOMAIN log' : log'[i].id = id /\ log'[i].deleted_at # NULL]_vars

\* C23 (as claimed): no pulled record is folded twice: once a pull has been
\* folded, a pull with the cursor the client then holds delivers none of the
\* records just folded.
C23_NoRefold ==
  [][PollDone =>
       \A j \in DOMAIN Pulled :
         \A k \in DOMAIN getChanges(log', getLastSequenceNumber(storedSeq')).changes :
           getChanges(log', getLastSequenceNumber(storedSeq')).changes[k].sequence_number
             # Pulled[j].sequence_number]_vars

\* C24: in a batch the client pushes, the create of an id stands before the
\* update of that id, and the rows the worker inserts for the batch carry a
\* lower sequence number for that create than for that update.
C24_CreateBeforeUpdate ==
  [][\A i \in DOMAIN pushes :
       (/\ Len(pushes') = Len(pushes) /\ pushes[i].stage = "sent"
        /\ pushes'[i].stage = "inserted")
       => LET batch == pushes[i].changes
              rows == SubSeq(log', Len(log) + 1, Len(log'))
          IN /\ Len(rows) = Len(batch)
             /\ \A c \in DOMAIN batch : \A u \in DOMAIN batch :
                  (/\ batch[c].id = batch[u].id /\ batch[c].change = "create"
                   /\ batch[u].change = "update")
                  => /\ c < u
                     /\ rows[c].id = batch[c].id /\ rows[c].change = "create"
                     /\ rows[u].id = batch[u].id /\ rows[u].change = "update"
                     /\ rows[c].sequence_number < rows[u].sequence_number]_vars

C24_Witness ==
  \E i \in DOMAIN pushes :
    /\ pushes[i].stage = "inserted"
    /\ Len(pushes[i].changes) = 2
    /\ pushes[i].changes[1].id = pushes[i].changes[2].id
    /\ pushes[i].changes[1].change = "create" /\ pushes[i].changes[2].change = "update"
    /\ Len(log) = 2 /\ log[1].change = "create" /\ log[2].change = "update"

\* the rows of the log that insert the create record of id
CreateRows(id) == {i \in DOMAIN log : log[i].id = id /\ log[i].change = "create"}

\* C25 (as claimed): a staged change record is inserted into the log at most
\* once. The client stages one create record for each id it mints, and no
\* other client creates that id: the log holds at most one create row of it.
C25_InsertedOnce ==
  \A id \in 1..MaxIds : Cardinality(CreateRows(id)) <= 1

\* C26 (as claimed): every response to a request that carries an Origin header
\* has Access-Control-Allow-Origin equal to that origin and
\* Access-Control-Allow-Credentials: true.
C26_CorsEcho ==
  /\ (otherAnswer # <<>> /\ otherAnswer[1].origin # <<>>)
     => /\ otherAnswer[1].allowOrigin = otherAnswer[1].origin
        /\ otherAnswer[1].allowCredentials = "true"
  /\ (authAnswer # <<>> /\ authAnswer[1].origin # <<>>)
     => /\ authAnswer[1].headers.allowOrigin = authAnswer[1].origin
        /\ authAnswer[1].headers.allowCredentials = "true"

\* C27 (as claimed): a POST /auth/verify of an ip that has made MAX_ATTEMPTS
\* failed verifications within the hour, with no success since and its lockout
\* not expired, is answered 429, and that answer leaves login_attempts as it is.
C27_LockedOut ==
  [][(Len(verifies') < Len(verifies) /\ authAnswer'[1].due)
     => /\ authAnswer'[1].status = 429
        /\ loginAttempts' = loginAttempts]_vars

\* C28 (as claimed): the locked_until of a row is one hour after the failed
\* attempt that set it.
C28_LockoutOneHour ==
  \A r \in loginAttempts :
    r.locked_until # <<>> => r.locked_until[1] = r.last_attempt_time + 3600

\* C29: a local mutation records its change c in the queue q: when q holds a
\* record of c's id and kind the queue keeps its length, c stands in the place
\* of that record and the other records are as they were; otherwise the queue
\* is q with c added. So the record of an id and a kind is the last one staged.
C29_RecordChange ==
  [][edits' = edits + 1
     => \E i \in DOMAIN items' :
          LET c == CdcOf(IF Len(items') > Len(items) THEN "create" ELSE "update",
                         items'[i])
              q == cdcChanges
          IN /\ \A j \in DOMAIN items : j # i => items'[j] = items[j]
             /\ IF \E k \in DOMAIN q : SameKey(q[k], c)
                THEN /\ Len(cdcChanges') = Len(q)
                     /\ \A k \in DOMAIN q :
                          cdcChanges'[k] = IF SameKey(q[k], c) THEN c ELSE q[k]
                ELSE \E p \in DOMAIN cdcChanges' :
                       cdcChanges'[p] = c /\ RemoveAt(cdcChanges', p) = q]_vars

C29_Witness ==
  /\ edits = 2
  /\ Len(items) = 1
  /\ Len(cdcChanges) = 2
  /\ cdcChanges[1].change = "create"
  /\ cdcChanges[2] = CdcOf("update", items[1])
  /\ storedCdc = cdcChanges

\* C30: folding one pulled record, create or update, whose id is in the cache
\* sets the name, completed and deleted_at of that item to the record's,
\* whatever the queue holds, and leaves the other items, the number of items
\* and the queue as they were.
C30_FoldKnownId ==
  [][(PollDone /\ Len(Pulled) = 1 /\ HasId(items, Pulled[1].id))
     => LET r == Pulled[1]
        IN /\ Len(items') = Len(items)
           /\ \A i \in DOMAIN items :
                items'[i] = IF items[i].id = r.id
                            THEN [id |-> r.id, name |-> r.name,
                                  completed |-> r.completed,
                                  deleted_at |-> r.deleted_at]
                            ELSE items[i]
           /\ cdcChanges' = cdcChanges]_vars

\* the one row of the log, an update of item 1 by another client, has been
\* pulled and folded while the create of item 1 was still queued
C30_Witness ==
  /\ Len(log) = 1 /\ log[1].id = 1 /\ log[1].change = "update"
  /\ poll = <<>> /\ storedSeq = <<1>>
  /\ items = <<[id |-> 1, name |-> "Eggs", completed |-> "1", deleted_at |-> NULL]>>
  /\ cdcChanges # <<>> /\ cdcChanges[1].change = "create" /\ cdcChanges[1].name = "Milk"

\* C31 (as claimed): when a push ends in failure and the queue is not empty
\* the status is pending (or syncing while the poll that follows the push is
\* in flight).
C31_PendingAfterFailure ==
  [][((\E i \in 1..MaxRounds : PushFailed(i)) /\ cdcChanges' # <<>>)
     => \/ syncStatus' = "pending"
        \/ syncStatus' = "syncing" /\ InFlight' > 0]_vars

\* C32 (as claimed): while the status is idle the queue is empty.
C32_IdleMeansEmpty ==
  syncStatus = "idle" => cdcChanges = <<>>

\* C33: every local mutation leaves one debounce timer armed, whose callback
\* holds the queue the mutation made, and the status pending; an armed timer
\* always holds the queue as it is, and when it fires the push it sends is that
\* queue.
C33_DebounceRearmed ==
  [][/\ edits' = edits + 1
        => /\ syncTimerRef' = "armed"
           /\ Len(timerClosure') = 1
           /\ timerClosure'[1].changes = cdcChanges'
           /\ syncStatus' = "pending"
     /\ syncTimerRef' = "armed"
        => Len(timerClosure') = 1 /\ timerClosure'[1].changes = cdcChanges'
     /\ (syncTimerRef = "armed" /\ Len(pushes') = Len(pushes) + 1
         /\ pushes'[Len(pushes')].kind = "timer")
        => pushes'[Len(pushes')].changes = cdcChanges]_vars

\* the timer armed by the second of two mutations has fired: the push in
\* flight carries both records
C33_Witness ==
  /\ edits = 2
  /\ Len(pushes) = 1 /\ pushes[1].kind = "timer"
  /\ Len(pushes[1].changes) = 2 /\ pushes[1].changes = cdcChanges
  /\ syncTimerRef = "stale"

\* C34 (as claimed): the completion of a successful push stores the sequence
\* number the push returned as the cursor and starts one pull after that
\* number.
C34_PullAfterPush ==
  [][\A i \in DOMAIN pushes :
       PushDone(i)
       => /\ storedSeq' = <<pushes[i].sequence_number>>
          /\ poll' # <<>> /\ poll' # poll
          /\ poll'[1].stage = "sent"
          /\ poll'[1].after = pushes[i].sequence_number]_vars

\* C35 (as claimed): while the page is hidden the polling interval is not
\* armed, and no mutation, push completion or visibility change starts a poll
\* on a hidden page (the page has not been loaded again).
C35_HiddenNoPoll ==
  [][(~isPageVisible' /\ reloads' = 0)
     => /\ pollingIntervalRef' = <<>>
        /\ (poll' = <<>> \/ poll' = poll \/ poll'[1].stage # "sent")]_vars

\* C36 (as claimed): when the page becomes visible while the queue is empty
\* and no round trip is in flight, a poll is started and the polling interval
\* is armed.
C36_VisibleResumes ==
  [][(/\ flips' = flips + 1 /\ isPageVisible'
      /\ cdcChanges = <<>> /\ InFlight = 0)
     => /\ poll' # <<>> /\ poll'[1].stage = "sent"
        /\ pollingIntervalRef' # <<>>]_vars

\* C37: a page load while no round trip is in flight leaves the cursor, the
\* items and the queue, in its order, as they were before it.
C37_RestartRestores ==
  [][(reloads' = reloads + 1 /\ InFlight = 0)
     => /\ items' = items
        /\ cdcChanges' = cdcChanges
        /\ lastSequenceNumber' = lastSequenceNumber
        /\ Cursor' = Cursor]_vars

\* the page was loaded again with two records queued, an item cached and the
\* cursor at 1, and holds them; its two round trips are the poll of the first
\* load, which had ended, and the poll of this one
C37_Witness ==
  /\ reloads = 1 /\ pushes = <<>>
  /\ Len(cdcChanges) = 2 /\ items # <<>> /\ lastSequenceNumber = 1
  /\ poll # <<>> /\ poll[1].stage = "sent" /\ poll[1].after = 1
  /\ rounds = 2

\* C38 (as claimed): the completion of a successful push removes from the
\* queue only records of its payload: a record queued during the flight is in
\* the queue afterwards.
C38_KeepsLaterChanges ==
  [][\A i \in DOMAIN pushes :
       PushDone(i)
       => \A k \in DOMAIN cdcChanges :
            cdcChanges[k] \notin Range(pushes[i].changes)
            => cdcChanges[k] \in Range(cdcChanges')]_vars

\* C39 (as claimed): every row of the log at or below the stored cursor was
\* pushed by this client or folded by one of its pulls. A create of OtherId is
\* never pushed by this client, and a pull that folded row k was served when
\* the log held at least k rows: such a row at or below the cursor is at or
\* below the length the log had when the last completed pull was served
\* (stated for the states in which no pull is in flight).
C39_CursorCoversFolded ==
  \A k \in DOMAIN log :
    (poll = <<>> /\ k <= Cursor /\ log[k].id = OtherId /\ log[k].change = "create")
    => k <= lastPullLen

\* C40: isPollingRef is set exactly while a poll is in flight; a poll in
\* flight is not replaced by another request, whoever asks for a poll (interval,
\* visibility change, push completion), until it ends or the page is loaded
\* again; and when it ends, answered or failed, the flag is cleared.
C40_OnePollInFlight ==
  [][/\ isPollingRef' <=> poll' # <<>>
     /\ (poll # <<>> /\ reloads' = reloads /\ poll' # <<>>)
        => /\ poll'[1].after = poll[1].after
           /\ poll'[1].lastSequenceNumber = poll[1].lastSequenceNumber
           /\ poll'[1].cont = poll[1].cont
           /\ poll[1].stage = "ok" => poll' = poll
     /\ (poll # <<>> /\ poll' = <<>>) => ~isPollingRef']_vars

\* the page was hidden and shown again with an empty queue while the poll of
\* the mount was in flight: the handler asked for a poll and none was sent
C40_Witness ==
  /\ flips = 2 /\ isPageVisible /\ reloads = 0
  /\ cdcChanges = <<>> /\ handler.cdcLength = 0
  /\ poll # <<>> /\ poll[1].stage = "sent" /\ isPollingRef
  /\ rounds = 1 /\ pollingIntervalRef # <<>>

====
